---- MODULE Spec2Model ----
(***************************************************************************)
(* Offline-first persistence and synchronisation of Task and Evidence      *)
(* records: the IndexedDB-backed StorageService, the screens that mutate   *)
(* records locally (ProjectDetailScreen, SyncStatusScreen,                 *)
(* ProjectListScreen) and the orchestration run started from               *)
(* SyncStatusScreen.handleManualSync.                                      *)
(*                                                                         *)
(* Every await of the source is a step boundary: a StorageService call     *)
(* that reads and then writes (updateTask, updateEvidence) is two steps,   *)
(* and other handlers may run in between.                                  *)
(*                                                                         *)
(* SyncService (manualSync, getSyncStatusData) is imported by the screens  *)
(* but its source is not part of src/; it is modelled from spec.md 4.2,    *)
(* 4.3 and 5, on top of the StorageService calls that are in src/.         *)
(***************************************************************************)
EXTENDS Integers, Sequences, FiniteSets, TLC

(***************************************************************************)
(* Bounds of the model.                                                    *)
(***************************************************************************)
\* tasks the user may add with handleAddTask
NumNewTasks == 1
\* evidence the user may add with handleFileSelect
NumNewEvidence == 1
\* the clock stops advancing at MaxTime
MaxTime == 2
\* local mutations (toggle, add task, add evidence) in one behaviour
MaxLocalOps == 1
\* orchestration runs started in one behaviour
MaxRuns == 2
\* connectivity changes in one behaviour
MaxNetChanges == 1
\* concurrent callers of one BaseStorageService
NumCallers == 2
\* distinct IDs a caller may supply with an item
NumCallerIds == 2
\* BaseStorageService calls in one behaviour
MaxStoreCalls == 3
\* items in one createBulk call
MaxBulk == 2
\* records in the stored queue of StorageService
MaxQueued == 1
\* calls of the single client of a BaseStorageService subclass
MaxCrudCalls == 2
\* calls made on the UserStorageService
MaxUserCalls == 3
\* the largest offset and limit of getAll
MaxSlice == 2

(***************************************************************************)
(* Program constants.                                                      *)
(***************************************************************************)
\* sampleTasks / sampleEvidence of ProjectListScreen.generateSampleSyncData
NumSampleTasks == 3
NumSampleEvidence == 2
\* the clock value at application start; earlier values are "in the past"
StartTime == 1
\* an optional field that is undefined (lastSyncedAt?, lastSyncAt?)
Unset == -1

TaskKeys == { <<"tasks", i>> : i \in 1..(NumSampleTasks + NumNewTasks) }
EvidenceKeys == { <<"evidence", i>> : i \in 1..(NumSampleEvidence + NumNewEvidence) }
Keys == TaskKeys \cup EvidenceKeys

\* the order in which getAll returns the keys of both stores (tasks first)
KeyLess(a, b) ==
    \/ a[1] = "tasks" /\ b[1] = "evidence"
    \/ a[1] = b[1] /\ a[2] < b[2]

\* a key with no stored value: dbHelper.get resolves null
Absent == [present |-> FALSE]

IsPresent(r) == r # Absent

VARIABLES
    online,            \* connectivity of the device, as NetworkService reports it
    now,               \* the clock read by new Date()
    db,                \* the tasks and evidence object stores: key -> record | Absent
    lastSyncAt,        \* sync_queue record 'queue': lastSyncAt
    syncData,          \* SyncStatusScreen state: the snapshot last loaded
    isSyncing,         \* SyncStatusScreen state
    alert,             \* title of the Alert.alert the last step raised
    screen,            \* the screen on top of the navigation stack
    ui,                \* the updateTask call of handleToggleComplete in flight
    run,               \* the orchestration run (SyncService.manualSync)
    used,              \* how much of MaxLocalOps, MaxRuns, MaxNetChanges is used
    bs,                \* a BaseStorageService: its AsyncStorage item and its callers
    syncQueue          \* sync_queue record 'queue': tasks, evidence; the addToSyncQueue call

vars == <<online, now, db, lastSyncAt, syncData, isSyncing, alert, screen,
          ui, run, used, bs, syncQueue>>

(***************************************************************************)
(* Records.  A Task or Evidence record keeps the fields the sync engine    *)
(* reads or writes; title, description, file name and the like are never   *)
(* read by it and are left out.  Evidence has no status and no updatedAt:  *)
(* both stay "none" / Unset.                                               *)
(***************************************************************************)
SyncStatuses == {"none", "pending", "syncing", "synced", "failed"}

NewRecord(status, needsSync, syncStatus, syncError, lastSyncedAt, updatedAt) ==
    [status |-> status, needsSync |-> needsSync, syncStatus |-> syncStatus,
     syncError |-> syncError, lastSyncedAt |-> lastSyncedAt,
     updatedAt |-> updatedAt]

(***************************************************************************)
(* IndexedDBHelper: one transaction per call.                              *)
(***************************************************************************)
IdbGet(store, k) == store[k]

\* a plausible slip: put implemented like putMany, clearing the store first
IdbPutClearing(store, k, value) ==
    [x \in DOMAIN store |->
        IF x = k THEN value ELSE IF x[1] = k[1] THEN Absent ELSE store[x]]

IdbPut(store, k, value) == [store EXCEPT ![k] = value]

\* putMany: clear the object store, then put every item
IdbPutMany(store, storeName, items) ==
    [x \in DOMAIN store |->
        IF x[1] # storeName THEN store[x]
        ELSE IF x \in DOMAIN items THEN items[x] ELSE Absent]

(***************************************************************************)
(* StorageService.updateTask / updateEvidence: get, merge, put.            *)
(***************************************************************************)
\* { ...record, ...updates }
Merge(record, updates) ==
    [f \in DOMAIN record |->
        IF f \in DOMAIN updates THEN updates[f] ELSE record[f]]

\* a plausible slip: the spread order reversed, { ...updates, ...record }
UpdatedTaskStale(task, updates, t) == [task EXCEPT !.updatedAt = t]

UpdatedTask(task, updates, t) == [Merge(task, updates) EXCEPT !.updatedAt = t]

\* a plausible slip: the spread order reversed, { ...updates, ...evidence }
UpdatedEvidenceStale(evidence, updates) == evidence

UpdatedEvidence(evidence, updates) == Merge(evidence, updates)

\* a plausible slip: a record the transport accepted is purged from the
\* local store instead of being marked synced
UpdatedPurging(k, record, updates, t) ==
    IF "lastSyncedAt" \in DOMAIN updates THEN Absent
    ELSE IF k[1] = "tasks" THEN UpdatedTask(record, updates, t)
    ELSE UpdatedEvidence(record, updates)

Updated(k, record, updates, t) ==
    IF k[1] = "tasks" THEN UpdatedTask(record, updates, t)
    ELSE UpdatedEvidence(record, updates)

(***************************************************************************)
(* Sample data of ProjectListScreen.generateSampleSyncData.                *)
(***************************************************************************)
SampleTasks(t) ==
    <<"tasks", 1>> :> NewRecord("pending", TRUE, "pending", "none", Unset, t)
    @@ <<"tasks", 2>> :> NewRecord("completed", FALSE, "synced", "none", t - 1, t)
    @@ <<"tasks", 3>> :> NewRecord("pending", TRUE, "failed", "Network timeout", Unset, t)

SampleEvidence(t) ==
    <<"evidence", 1>> :> NewRecord("none", TRUE, "pending", "none", Unset, Unset)
    @@ <<"evidence", 2>> :> NewRecord("none", FALSE, "synced", "none", t - 1, Unset)

\* saveTasks(sampleTasks), then addEvidence for each sample evidence
GenerateSampleSyncData(store, t) ==
    LET withTasks == IdbPutMany(store, "tasks", SampleTasks(t))
    IN  [x \in DOMAIN store |->
            IF x \in DOMAIN SampleEvidence(t) THEN SampleEvidence(t)[x]
            ELSE withTasks[x]]

(***************************************************************************)
(* SyncService.getSyncStatusData: the aggregate snapshot, computed by      *)
(* scanning both stores.                                                   *)
(***************************************************************************)
Stored(store) == { k \in DOMAIN store : IsPresent(store[k]) }

CountStatus(store, s) ==
    Cardinality({ k \in Stored(store) : store[k].syncStatus = s })

\* the keys of the records whose copies the stored queue holds
Queued(q) ==
    { q.tasks[i].key : i \in 1..Len(q.tasks) }
        \cup { q.evidence[i].key : i \in 1..Len(q.evidence) }

\* a plausible slip: the stored queue is reported instead of the scan
ItemsQueued(store) == Queued(syncQueue)

\* StorageService.getItemsNeedingSync
ItemsNeedingSync(store) ==
    { k \in Stored(store) :
        \/ store[k].needsSync
        \/ store[k].syncStatus = "pending"
        \/ store[k].syncStatus = "failed" }

GetSyncStatusData(store, isOnline, last) ==
    [isOnline |-> isOnline,
     totalItems |-> Cardinality(Stored(store)),
     pendingItems |-> CountStatus(store, "pending"),
     syncedItems |-> CountStatus(store, "synced"),
     failedItems |-> CountStatus(store, "failed"),
     lastSyncAt |-> last]

\* what SyncStatusScreen reads of the snapshot it keeps in its state
ScreenSnapshot(store, isOnline, last) ==
    LET d == GetSyncStatusData(store, isOnline, last)
    IN  [isOnline |-> d.isOnline, pendingItems |-> d.pendingItems]

NoSnapshot == [isOnline |-> FALSE, pendingItems |-> Unset]

(***************************************************************************)
(* Initial state: the application has started, ProjectListScreen (the      *)
(* initial route) is mounted and its mount effect checkAsyncStorage found  *)
(* an empty database and generated the sample data.                        *)
(***************************************************************************)
EmptyStore == [k \in Keys |-> Absent]

IdleUi == [stage |-> "idle", key |-> <<"tasks", 1>>, read |-> Absent,
           status |-> "none", needsSync |-> FALSE]

NoResult == [success |-> FALSE, syncedTasks |-> 0, syncedEvidence |-> 0,
             failedTasks |-> {}, failedEvidence |-> {}, errors |-> {}]

IdleRun == [phase |-> "idle", attached |-> FALSE, batch |-> <<>>,
            order |-> <<>>, resp |-> [k \in Keys |-> "none"],
            idx |-> 0, stage |-> "get", read |-> Absent,
            result |-> NoResult]

(***************************************************************************)
(* BaseStorageService: the state.  The collection is one AsyncStorage item *)
(* (a JSON array); a call reads it whole, changes its copy and writes the  *)
(* copy back.                                                              *)
(***************************************************************************)
Callers == 1..NumCallers

\* IDs the caller puts in the item; generateId never returns one of them
CallerIds == { <<"caller", i>> : i \in 1..NumCallerIds }

\* generateId: `${Date.now()}_${Math.random()...}`, taken as fresh
GenerateId(n) == <<"generated", n + 1>>

Payloads == {"x", "y"}

\* an item handed to create / createBulk: with or without the id field
Inputs == [hasId : BOOLEAN, id : CallerIds, name : {"x"}]

NoInput == [hasId |-> FALSE, id |-> <<"caller", 1>>, name |-> "x"]

NoStorageResult == [success |-> FALSE, error |-> "none"]

IdleCall == [op |-> "idle", data |-> <<>>, items |-> <<>>,
             id |-> <<"caller", 1>>, name |-> "x"]

\* the service before any call: nothing stored, no call in progress, no
\* exception at the caller (thrown) and no call made yet (last)
InitBs == [items |-> <<>>, call |-> [c \in Callers |-> IdleCall], gen |-> 0,
           calls |-> 0, result |-> NoStorageResult, thrown |-> FALSE,
           last |-> [op |-> "none"]]

\* getSyncQueue when the record is missing: { tasks: [], evidence: [] }
NoQueueCall == [stage |-> "idle"]

InitSyncQueue == [tasks |-> <<>>, evidence |-> <<>>, call |-> NoQueueCall]

Init ==
    /\ bs = InitBs
    /\ syncQueue = InitSyncQueue
    /\ online \in BOOLEAN
    /\ now = StartTime
    /\ db = GenerateSampleSyncData(EmptyStore, StartTime)
    /\ lastSyncAt = Unset
    /\ syncData = NoSnapshot
    /\ isSyncing = FALSE
    /\ alert = "none"
    /\ screen = "ProjectList"
    /\ ui = IdleUi
    /\ run = IdleRun
    /\ used = [ops |-> 0, runs |-> 0, net |-> 0]

(***************************************************************************)
(* Environment: the clock and the connectivity.                            *)
(***************************************************************************)
Tick ==
    /\ now < MaxTime
    /\ run.phase = "idle"
    /\ ui.stage = "idle"
    /\ now' = now + 1
    /\ alert' = "none"
    /\ UNCHANGED <<online, db, lastSyncAt, syncData, isSyncing, screen, ui, run, used, bs, syncQueue>>

\* ProjectListScreen.checkAsyncStorage: the stores after it.  It reads the
\* snapshot for the badge of the header (setPendingSyncCount, which no
\* handler reads) and generates the sample data when nothing is stored
CheckAsyncStorage(store, isOnline, last, t) ==
    LET d == GetSyncStatusData(store, isOnline, last)
    IN  IF d.totalItems = 0 THEN GenerateSampleSyncData(store, t) ELSE store

\* NetworkService.subscribeToNetworkChanges callbacks:
\* ProjectListScreen.setupNetworkListener and
\* ProjectDetailScreen.setupNetworkListener (setIsConnected)
NetworkChange ==
    /\ used.net < MaxNetChanges
    /\ used' = [used EXCEPT !.net = @ + 1]
    /\ online' = ~online
    /\ db' = IF online' THEN CheckAsyncStorage(db, TRUE, lastSyncAt, now) ELSE db
    /\ alert' = "none"
    /\ UNCHANGED <<now, lastSyncAt, syncData, isSyncing, screen, ui, run, bs, syncQueue>>

(***************************************************************************)
(* Navigation (AppNavigator: a stack with ProjectList at its root).        *)
(***************************************************************************)
\* Layout: navigation.navigate('SyncStatus'); the screen mounts with
\* isSyncing = false and its mount effect loads the snapshot
NavigateSyncStatus ==
    /\ screen = "ProjectList"
    /\ screen' = "SyncStatus"
    /\ isSyncing' = FALSE
    /\ syncData' = ScreenSnapshot(db, online, lastSyncAt)
    /\ alert' = "none"
    /\ UNCHANGED <<online, now, db, lastSyncAt, ui, run, used, bs, syncQueue>>

\* ProjectListScreen.handleProjectPress
NavigateProjectDetail ==
    /\ screen = "ProjectList"
    /\ screen' = "ProjectDetail"
    /\ alert' = "none"
    /\ UNCHANGED <<online, now, db, lastSyncAt, syncData, isSyncing, ui, run, used, bs, syncQueue>>

\* navigation.goBack(): the screen unmounts (its state is gone, a run it
\* started goes on without it) and ProjectListScreen's focus listener runs
\* checkAsyncStorage
GoBack ==
    /\ screen # "ProjectList"
    /\ screen' = "ProjectList"
    /\ isSyncing' = FALSE
    /\ syncData' = NoSnapshot
    /\ run' = IF screen = "SyncStatus" THEN [run EXCEPT !.attached = FALSE] ELSE run
    /\ db' = CheckAsyncStorage(db, online, lastSyncAt, now)
    /\ alert' = "none"
    /\ UNCHANGED <<online, now, lastSyncAt, ui, used, bs, syncQueue>>

(***************************************************************************)
(* ProjectDetailScreen.  isConnected is the state its network listener     *)
(* keeps equal to the connectivity; the screen's task list holds the       *)
(* stored tasks.                                                           *)
(***************************************************************************)
Toggled(status) == IF status = "completed" THEN "pending" ELSE "completed"

\* ids come from Date.now(): an id not in use
FreshKey(store, keys) ==
    CHOOSE k \in keys :
        /\ ~IsPresent(store[k])
        /\ \A x \in keys : ~IsPresent(store[x]) => x[2] >= k[2]

HasFreshKey(store, keys) == \E k \in keys : ~IsPresent(store[k])

\* handleToggleComplete up to the await inside StorageService.updateTask:
\* the updates are built and dbHelper.get has read the task
HandleToggleComplete(k) ==
    /\ used.ops < MaxLocalOps
    /\ used' = [used EXCEPT !.ops = @ + 1]
    /\ screen = "ProjectDetail"
    /\ ui.stage = "idle"
    /\ k \in TaskKeys
    /\ IsPresent(db[k])
    /\ ui' = [stage |-> "got", key |-> k, read |-> IdbGet(db, k),
              status |-> Toggled(db[k].status), needsSync |-> ~online]
    /\ alert' = "none"
    /\ UNCHANGED <<online, now, db, lastSyncAt, syncData, isSyncing, screen, run, bs, syncQueue>>

\* StorageService.updateTask after its get: merge and put
UpdateTaskPut ==
    /\ ui.stage = "got"
    /\ db' = IF IsPresent(ui.read)
             THEN IdbPut(db, ui.key,
                         UpdatedTask(ui.read,
                                     [status |-> ui.status,
                                      needsSync |-> ui.needsSync], now))
             ELSE db
    /\ ui' = IdleUi
    /\ alert' = "none"
    /\ UNCHANGED <<online, now, lastSyncAt, syncData, isSyncing, screen, run, used, bs, syncQueue>>

\* handleAddTask: the new task carries no syncStatus
AddedTask(isConnected, t) ==
    NewRecord("pending", ~isConnected, "none", "none", Unset, t)

HandleAddTask ==
    /\ used.ops < MaxLocalOps
    /\ used' = [used EXCEPT !.ops = @ + 1]
    /\ screen = "ProjectDetail"
    /\ HasFreshKey(db, TaskKeys)
    /\ db' = IdbPut(db, FreshKey(db, TaskKeys), AddedTask(online, now))
    /\ alert' = IF ~online THEN "Offline" ELSE "none"
    /\ UNCHANGED <<online, now, lastSyncAt, syncData, isSyncing, screen, ui, run, bs, syncQueue>>

\* handleFileSelect of ProjectDetailScreen
AddedEvidence(isConnected) ==
    NewRecord("none", ~isConnected, "pending", "none", Unset, Unset)

HandleFileSelect ==
    /\ used.ops < MaxLocalOps
    /\ used' = [used EXCEPT !.ops = @ + 1]
    /\ screen = "ProjectDetail"
    /\ HasFreshKey(db, EvidenceKeys)
    /\ db' = IdbPut(db, FreshKey(db, EvidenceKeys), AddedEvidence(online))
    /\ alert' = "none"
    /\ UNCHANGED <<online, now, lastSyncAt, syncData, isSyncing, screen, ui, run, bs, syncQueue>>

(***************************************************************************)
(* SyncStatusScreen.                                                       *)
(***************************************************************************)
\* loadSyncData (pull to refresh)
LoadSyncData ==
    /\ screen = "SyncStatus"
    /\ syncData' = ScreenSnapshot(db, online, lastSyncAt)
    /\ alert' = "none"
    /\ UNCHANGED <<online, now, db, lastSyncAt, isSyncing, screen, ui, run, used, bs, syncQueue>>

\* handleFileSelect of SyncStatusScreen: the evidence is always dirty
SyncStatusEvidence == NewRecord("none", TRUE, "pending", "none", Unset, Unset)

SyncStatusHandleFileSelect ==
    /\ used.ops < MaxLocalOps
    /\ used' = [used EXCEPT !.ops = @ + 1]
    /\ screen = "SyncStatus"
    /\ HasFreshKey(db, EvidenceKeys)
    /\ db' = IdbPut(db, FreshKey(db, EvidenceKeys), SyncStatusEvidence)
    /\ syncData' = ScreenSnapshot(db', online, lastSyncAt)
    /\ alert' = "none"
    /\ UNCHANGED <<online, now, lastSyncAt, isSyncing, screen, ui, run, bs, syncQueue>>

(***************************************************************************)
(* SyncService.manualSync, the orchestration run (spec.md 4.3).            *)
(***************************************************************************)
RECURSIVE SeqOf(_)
\* the keys of S in the order getAll returns them
SeqOf(S) ==
    IF S = {} THEN <<>>
    ELSE LET m == CHOOSE x \in S : \A y \in S \ {x} : KeyLess(x, y)
         IN  <<m>> \o SeqOf(S \ {m})

Range(q) == { q[i] : i \in 1..Len(q) }

Reverse(q) == [i \in 1..Len(q) |-> q[Len(q) + 1 - i]]

\* step 2: the records with needsSync == true
\* a plausible slip: only records still pending are taken, failed ones never
SelectPendingOnly(store) ==
    { k \in Stored(store) :
        store[k].needsSync /\ store[k].syncStatus = "pending" }

SelectDirty(store) == { k \in Stored(store) : store[k].needsSync }

\* the in-flight guard of the orchestrator (spec.md 4.3, 5)
\* a plausible slip: no guard
NeverInFlight(r) == FALSE

InFlight(r) == r.phase # "idle"

\* step 1 of manualSync: the call is refused when the device is offline or
\* a run is in flight
\* a plausible slip: connectivity is not checked
RefusesInFlightOnly(isOnline, r) == InFlight(r)

Refuses(isOnline, r) == ~isOnline \/ InFlight(r)

\* the Sync Now button: disabled={!syncData?.isOnline || isSyncing}
SyncButtonEnabled(data, syncing) == data.isOnline /\ ~syncing

\* 4.2: the transitions of a selected record
SyncingUpdates == [syncStatus |-> "syncing"]

\* a plausible slip: the success transition leaves the dirty flag set
SuccessUpdatesKeepingDirty(t) ==
    [syncStatus |-> "synced", lastSyncedAt |-> t, syncError |-> "none"]

SuccessUpdates(t) ==
    [syncStatus |-> "synced", needsSync |-> FALSE, lastSyncedAt |-> t,
     syncError |-> "none"]

\* a plausible slip: the failure transition clears the dirty flag as well
FailureUpdatesClearing(reason) ==
    [syncStatus |-> "failed", syncError |-> reason, needsSync |-> FALSE]

FailureUpdates(reason) == [syncStatus |-> "failed", syncError |-> reason]

TransportError == "Transport error"

\* step 7: the aggregate result
\* a plausible slip: success whenever something was synced
SyncResultLax(batch, resp) ==
    LET ok == { k \in Range(batch) : resp[k] = "ok" }
        ko == { k \in Range(batch) : resp[k] # "ok" }
    IN  [success |-> ok # {} \/ ko = {},
         syncedTasks |-> Cardinality(ok \cap TaskKeys),
         syncedEvidence |-> Cardinality(ok \cap EvidenceKeys),
         failedTasks |-> ko \cap TaskKeys,
         failedEvidence |-> ko \cap EvidenceKeys,
         errors |-> IF ko = {} THEN {} ELSE {TransportError}]

\* a plausible slip: success asks for at least one synced record
SyncResultStrict(batch, resp) ==
    LET ok == { k \in Range(batch) : resp[k] = "ok" }
        ko == { k \in Range(batch) : resp[k] # "ok" }
    IN  [success |-> ok # {} /\ ko = {},
         syncedTasks |-> Cardinality(ok \cap TaskKeys),
         syncedEvidence |-> Cardinality(ok \cap EvidenceKeys),
         failedTasks |-> ko \cap TaskKeys,
         failedEvidence |-> ko \cap EvidenceKeys,
         errors |-> IF ko = {} THEN {} ELSE {TransportError}]

SyncResult(batch, resp) ==
    LET ok == { k \in Range(batch) : resp[k] = "ok" }
        ko == { k \in Range(batch) : resp[k] # "ok" }
    IN  [success |-> ko = {},
         syncedTasks |-> Cardinality(ok \cap TaskKeys),
         syncedEvidence |-> Cardinality(ok \cap EvidenceKeys),
         failedTasks |-> ko \cap TaskKeys,
         failedEvidence |-> ko \cap EvidenceKeys,
         errors |-> IF ko = {} THEN {} ELSE {TransportError}]

\* step 8: lastSyncAt after the run, whatever its result
\* a plausible slip: only a fully successful run is recorded
LastSyncAtIfSuccess(result, last, t) == IF result.success THEN t ELSE last

LastSyncAtAfterRun(result, last, t) == t

\* steps 2-6 with nothing interleaved and a transport that succeeds for
\* every record: each selected record is marked, then resolved
ManualSyncOk(store, t) ==
    [k \in DOMAIN store |->
        IF k \in SelectDirty(store)
        THEN Updated(k, Updated(k, store[k], SyncingUpdates, t),
                     SuccessUpdates(t), t)
        ELSE store[k]]

\* the response of the transport: one entry per record, in the order the
\* transport chose, each carrying the ID of its record and the outcome
Response(r) == [i \in 1..Len(r.order) |->
                  [id |-> r.order[i], outcome |-> r.resp[r.order[i]]]]

\* the record the run is working on: when marking, the next of the batch;
\* when applying, the one the current entry of the response names
\* a plausible slip: the entry is applied to the record at its position
RunKeyByPosition(r) == r.batch[r.idx]

RunKey(r) ==
    IF r.phase = "mark" THEN r.batch[r.idx] ELSE Response(r)[r.idx].id

RunUpdates(r, t) ==
    IF r.phase = "mark" THEN SyncingUpdates
    ELSE IF Response(r)[r.idx].outcome = "ok" THEN SuccessUpdates(t)
    ELSE FailureUpdates(TransportError)

(***************************************************************************)
(* SyncStatusScreen.handleManualSync.  The handler runs only when the      *)
(* button is enabled.                                                      *)
(***************************************************************************)
\* pendingItems === 0: 'All Synced'
HandleManualSyncAllSynced ==
    /\ screen = "SyncStatus"
    /\ SyncButtonEnabled(syncData, isSyncing)
    /\ syncData.pendingItems = 0
    /\ alert' = "All Synced"
    /\ UNCHANGED <<online, now, db, lastSyncAt, syncData, isSyncing, screen, ui, run, used, bs, syncQueue>>

\* manualSync refuses (device offline, or a run in flight): the handler
\* shows the failure, reloads the snapshot and clears isSyncing
HandleManualSyncRefused ==
    /\ screen = "SyncStatus"
    /\ SyncButtonEnabled(syncData, isSyncing)
    /\ syncData.pendingItems # 0
    /\ Refuses(online, run)
    /\ alert' = "Sync Failed"
    /\ syncData' = ScreenSnapshot(db, online, lastSyncAt)
    /\ isSyncing' = FALSE
    /\ UNCHANGED <<online, now, db, lastSyncAt, screen, ui, run, used, bs, syncQueue>>

\* setIsSyncing(true); manualSync starts a run
HandleManualSync ==
    /\ screen = "SyncStatus"
    /\ SyncButtonEnabled(syncData, isSyncing)
    /\ syncData.pendingItems # 0
    /\ ~Refuses(online, run)
    /\ used.runs < MaxRuns
    /\ used' = [used EXCEPT !.runs = @ + 1]
    /\ isSyncing' = TRUE
    /\ run' = [IdleRun EXCEPT !.phase = "select", !.attached = TRUE]
    /\ alert' = "none"
    /\ UNCHANGED <<online, now, db, lastSyncAt, syncData, screen, ui, bs, syncQueue>>

\* step 2 (and 3: an empty batch goes straight to the end of the run)
RunSelect ==
    /\ run.phase = "select"
    /\ LET batch == SeqOf(SelectDirty(db))
       IN  run' = [run EXCEPT !.batch = batch,
                              !.phase = IF batch = <<>> THEN "stamp" ELSE "mark",
                              !.idx = 1, !.stage = "get"]
    /\ alert' = "none"
    /\ UNCHANGED <<online, now, db, lastSyncAt, syncData, isSyncing, screen, ui, used, bs, syncQueue>>

\* steps 4 and 6 go through StorageService.updateTask / updateEvidence:
\* first the get ...
RunGet ==
    /\ run.phase \in {"mark", "apply"}
    /\ run.stage = "get"
    /\ run' = [run EXCEPT !.read = IdbGet(db, RunKey(run)), !.stage = "put"]
    /\ alert' = "none"
    /\ UNCHANGED <<online, now, db, lastSyncAt, syncData, isSyncing, screen, ui, used, bs, syncQueue>>

\* ... then the merge and the put
RunPut ==
    /\ run.phase \in {"mark", "apply"}
    /\ run.stage = "put"
    /\ db' = IF IsPresent(run.read)
             THEN IdbPut(db, RunKey(run),
                         Updated(RunKey(run), run.read, RunUpdates(run, now), now))
             ELSE db
    /\ LET last == run.idx = Len(run.batch)
       IN  run' = [run EXCEPT
                     !.read = Absent, !.stage = "get",
                     !.idx = IF last THEN 1 ELSE run.idx + 1,
                     !.phase = IF ~last THEN run.phase
                               ELSE IF run.phase = "mark" THEN "transport"
                               ELSE "stamp"]
    /\ alert' = "none"
    /\ UNCHANGED <<online, now, lastSyncAt, syncData, isSyncing, screen, ui, used, bs, syncQueue>>

\* step 5: one call to the Remote Sync Transport; it answers per record, in
\* the order of the batch or in another one, and cannot succeed without
\* connectivity
RunTransport ==
    /\ run.phase = "transport"
    /\ \E answer \in [Range(run.batch) -> {"ok", "fail"}],
          order \in {run.batch, Reverse(run.batch)} :
          /\ ~online => \A k \in Range(run.batch) : answer[k] = "fail"
          /\ run' = [run EXCEPT
                       !.resp = [k \in Keys |->
                                   IF k \in Range(run.batch) THEN answer[k]
                                   ELSE "none"],
                       !.order = order, !.phase = "apply", !.idx = 1,
                       !.stage = "get"]
    /\ alert' = "none"
    /\ UNCHANGED <<online, now, db, lastSyncAt, syncData, isSyncing, screen, ui, used, bs, syncQueue>>

\* steps 7 and 8: StorageService.updateLastSyncTimestamp and the result
RunStamp ==
    /\ run.phase = "stamp"
    /\ lastSyncAt' = LastSyncAtAfterRun(SyncResult(run.batch, run.resp),
                                        lastSyncAt, now)
    /\ run' = [run EXCEPT !.phase = "done",
                          !.result = SyncResult(run.batch, run.resp)]
    /\ alert' = "none"
    /\ UNCHANGED <<online, now, db, syncData, isSyncing, screen, ui, used, bs, syncQueue>>

\* handleManualSync after the await: the alert, loadSyncData and
\* setIsSyncing(false), which act on the screen only if it is still mounted
HandleManualSyncDone ==
    /\ run.phase = "done"
    /\ alert' = IF run.result.success THEN "Sync Successful" ELSE "Sync Failed"
    /\ IF run.attached
       THEN /\ syncData' = ScreenSnapshot(db, online, lastSyncAt)
            /\ isSyncing' = FALSE
       ELSE UNCHANGED <<syncData, isSyncing>>
    /\ run' = IdleRun
    /\ UNCHANGED <<online, now, db, lastSyncAt, screen, ui, used, bs, syncQueue>>

(***************************************************************************)
(* BaseStorageService: create, createBulk, patch.  Each call is two steps: *)
(* readStorage, then everything after it up to writeStorage.               *)
(***************************************************************************)
syncVars == <<online, now, db, lastSyncAt, syncData, isSyncing, alert, screen,
              ui, run, used, syncQueue>>

\* addTimestamps(item, isNew)
AddTimestamps(item, isNew, t) ==
    [item EXCEPT !.createdAt = IF isNew THEN t ELSE @, !.updatedAt = t]

\* { ...item }, the ID generated if the field is absent, then the timestamps
NewItem(input, n, t) ==
    AddTimestamps([id |-> IF input.hasId THEN input.id ELSE GenerateId(n),
                   name |-> input.name, createdAt |-> Unset,
                   updatedAt |-> Unset], TRUE, t)

\* how many IDs generateId gave out for these inputs
Generated(inputs) ==
    Cardinality({ i \in 1..Len(inputs) : ~inputs[i].hasId })

\* the loop of createBulk (validate accepts every item in the base class)
NewItems(inputs, n, t) ==
    [i \in 1..Len(inputs) |->
        NewItem(inputs[i], n + Generated(SubSeq(inputs, 1, i - 1)), t)]

\* data.findIndex(i => i[idField] === id); 0 stands for -1
FindIndex(data, id) ==
    IF \E i \in 1..Len(data) : data[i].id = id
    THEN CHOOSE i \in 1..Len(data) :
             /\ data[i].id = id
             /\ \A j \in 1..(i - 1) : data[j].id # id
    ELSE 0

\* { ...data[index], ...updates }, the ID preserved, updatedAt stamped
Patched(item, id, name, t) ==
    AddTimestamps([item EXCEPT !.name = name, !.id = id], FALSE, t)

\* the items a caller may hand over; without an ID the id field is absent
Items ==
    { i \in Inputs : ~i.hasId => i.id = NoInput.id }

BulkItems == UNION { [1..n -> Items] : n \in 0..MaxBulk }

\* a call may start
CanCall(c) == bs.call[c].op = "idle" /\ bs.calls < MaxStoreCalls

\* the call after readStorage resolved: it holds its copy of the collection
Reading(c, op, inputs, id, name) ==
    [bs EXCEPT !.calls = @ + 1,
               !.call[c] = [op |-> op, data |-> bs.items, items |-> inputs,
                            id |-> id, name |-> name]]

Create(c, item) ==
    /\ CanCall(c)
    /\ bs' = Reading(c, "create", <<item>>, NoInput.id, NoInput.name)
    /\ UNCHANGED syncVars

CreateBulk(c, items) ==
    /\ CanCall(c)
    /\ bs' = Reading(c, "createBulk", items, NoInput.id, NoInput.name)
    /\ UNCHANGED syncVars

Patch(c, id, name) ==
    /\ CanCall(c)
    /\ bs' = Reading(c, "patch", <<>>, id, name)
    /\ UNCHANGED syncVars

\* create after readStorage: data.push(newItem); writeStorage(data)
CreateWrite(c) ==
    /\ bs.call[c].op = "create"
    /\ LET call == bs.call[c]
           newItem == NewItem(call.items[1], bs.gen, now)
       IN  bs' = [bs EXCEPT !.items = Append(call.data, newItem),
                           !.gen = @ + Generated(call.items),
                           !.call[c] = IdleCall,
                           !.result = [success |-> TRUE, error |-> "none"]]
    /\ UNCHANGED syncVars

\* createBulk after readStorage: data.push(...newItems); writeStorage(data)
CreateBulkWrite(c) ==
    /\ bs.call[c].op = "createBulk"
    /\ LET call == bs.call[c]
           newItems == NewItems(call.items, bs.gen, now)
       IN  bs' = [bs EXCEPT !.items = IF newItems = <<>> THEN @
                                     ELSE call.data \o newItems,
                           !.gen = @ + Generated(call.items),
                           !.call[c] = IdleCall,
                           !.result = [success |-> TRUE, error |-> "none"]]
    /\ UNCHANGED syncVars

\* patch after readStorage: 'Item not found', or data[index] = updatedItem
PatchWrite(c) ==
    /\ bs.call[c].op = "patch"
    /\ LET call == bs.call[c]
           index == FindIndex(call.data, call.id)
       IN  IF index = 0
           THEN bs' = [bs EXCEPT !.call[c] = IdleCall,
                                !.result = [success |-> FALSE,
                                            error |-> "Item not found"]]
           ELSE bs' = [bs EXCEPT
                         !.items = [call.data EXCEPT ![index] =
                                       Patched(call.data[index], call.id,
                                               call.name, now)],
                         !.call[c] = IdleCall,
                         !.result = [success |-> TRUE, error |-> "none"]]
    /\ UNCHANGED syncVars

NextStore ==
    \/ Tick
    \/ \E c \in Callers, item \in Items : Create(c, item)
    \/ \E c \in Callers, items \in BulkItems : CreateBulk(c, items)
    \/ \E c \in Callers, id \in CallerIds : Patch(c, id, "y")
    \/ \E c \in Callers : CreateWrite(c)
    \/ \E c \in Callers : CreateBulkWrite(c)
    \/ \E c \in Callers : PatchWrite(c)

SpecStore == Init /\ [][NextStore]_vars

Next ==
    \/ Tick
    \/ NetworkChange
    \/ NavigateSyncStatus
    \/ NavigateProjectDetail
    \/ GoBack
    \/ \E k \in TaskKeys : HandleToggleComplete(k)
    \/ UpdateTaskPut
    \/ HandleAddTask
    \/ HandleFileSelect
    \/ LoadSyncData
    \/ SyncStatusHandleFileSelect
    \/ HandleManualSyncAllSynced
    \/ HandleManualSyncRefused
    \/ HandleManualSync
    \/ RunSelect
    \/ RunGet
    \/ RunPut
    \/ RunTransport
    \/ RunStamp
    \/ HandleManualSyncDone

Spec == Init /\ [][Next]_vars

(***************************************************************************)
(* The stored queue of StorageService: addToSyncQueue pushes a copy of the *)
(* item it is given onto the tasks or the evidence of the sync_queue       *)
(* record, which it reads (getSyncQueue) and writes back whole, lastSyncAt *)
(* included; clearSyncQueue writes a record with two empty lists and no    *)
(* lastSyncAt.  The callers are any client of StorageService.              *)
(***************************************************************************)
queueVars == <<online, now, db, syncData, isSyncing, alert, screen, ui, run,
               used, bs>>

\* the items a client queues: the first sample task, the first sample evidence
QueuedKeys == {<<"tasks", 1>>, <<"evidence", 1>>}

\* 'projectId' in item
IsTask(k) == k \in TaskKeys

\* addToSyncQueue up to its await of getSyncQueue
AddToSyncQueue(k) ==
    /\ syncQueue.call = NoQueueCall
    /\ IsPresent(db[k])
    /\ Len(syncQueue.tasks) + Len(syncQueue.evidence) < MaxQueued
    /\ syncQueue' = [syncQueue EXCEPT
                       !.call = [stage |-> "got",
                                 key |-> k,
                                 item |-> db[k],
                                 tasks |-> syncQueue.tasks,
                                 evidence |-> syncQueue.evidence,
                                 lastSyncAt |-> lastSyncAt]]
    /\ UNCHANGED <<lastSyncAt, queueVars>>

\* addToSyncQueue: the push and dbHelper.put of the record it read
AddToSyncQueuePut ==
    /\ syncQueue.call # NoQueueCall
    /\ LET call == syncQueue.call
           entry == [key |-> call.key, item |-> call.item]
       IN  /\ syncQueue' =
                 [tasks |-> IF IsTask(call.key)
                            THEN Append(call.tasks, entry) ELSE call.tasks,
                  evidence |-> IF IsTask(call.key)
                               THEN call.evidence
                               ELSE Append(call.evidence, entry),
                  call |-> NoQueueCall]
           /\ lastSyncAt' = call.lastSyncAt
    /\ UNCHANGED queueVars

\* clearSyncQueue
ClearSyncQueue ==
    /\ syncQueue.tasks # <<>> \/ syncQueue.evidence # <<>>
    /\ syncQueue' = [syncQueue EXCEPT !.tasks = <<>>, !.evidence = <<>>]
    /\ lastSyncAt' = Unset
    /\ UNCHANGED queueVars

NextQueue ==
    \/ NavigateSyncStatus
    \/ NavigateProjectDetail
    \/ GoBack
    \/ \E k \in TaskKeys : HandleToggleComplete(k)
    \/ UpdateTaskPut
    \/ HandleManualSync
    \/ RunSelect
    \/ RunGet
    \/ RunPut
    \/ RunTransport
    \/ RunStamp
    \/ HandleManualSyncDone
    \/ \E k \in QueuedKeys : AddToSyncQueue(k)
    \/ AddToSyncQueuePut
    \/ ClearSyncQueue

SpecQueue == Init /\ [][NextQueue]_vars

(***************************************************************************)
(* A BaseStorageService subclass used by one client, one call at a time.   *)
(* validate is the name check of ProjectStorageService.validate; the       *)
(* after-hooks are overridable and may throw; AsyncStorage may fail on     *)
(* getItem and on setItem.  A method body ends by returning a result or by *)
(* throwing; the try/catch of every public method turns the exception into *)
(* a result.                                                               *)
(***************************************************************************)
Names == {"", "a", "b"}

\* an item or an update handed over by the client, with or without an id
ProjectInputs ==
    { i \in [hasId : BOOLEAN, id : CallerIds, name : Names] :
        ~i.hasId => i.id = NoInput.id }

\* the batches handed to createBulk: an item that has an id has the first
BulkProjectInputs ==
    UNION { [1..n -> { i \in ProjectInputs : i.id = NoInput.id }] :
              n \in 0..MaxBulk }

\* what goes wrong during one call: AsyncStorage.getItem rejects,
\* AsyncStorage.setItem rejects, the after-hook throws
\* (one of them at most in one call)
Faults ==
    { f \in [read : BOOLEAN, write : BOOLEAN, hook : BOOLEAN] :
        Cardinality({ x \in {"read", "write", "hook"} : f[x] }) <= 1 }

NoFaults == [read |-> FALSE, write |-> FALSE, hook |-> FALSE]

\* StorageResult / BulkStorageResult: data holds the items returned;
\* count is the data of deleteWhere, value the data of delete and clear
\* (true) and of deleteBulk ([true])
Ok(data) ==
    [success |-> TRUE, error |-> "none", data |-> data, errors |-> <<>>,
     count |-> 0, value |-> "none"]

Done(value) == [Ok(<<>>) EXCEPT !.value = value]

Failed(error) ==
    [success |-> FALSE, error |-> error, data |-> <<>>, errors |-> <<>>,
     count |-> 0, value |-> "none"]

\* the catch of the bulk methods: errors: [{ index: -1, error }]
BulkFailed(error) ==
    [success |-> FALSE, error |-> "none", data |-> <<>>,
     errors |-> <<[index |-> -1, error |-> error]>>, count |-> 0,
     value |-> "none"]

\* how a method body ends: the stored collection, the IDs generated so
\* far, and either the result it returns or the exception it throws
\* (result then holds what the catch of the method makes of it)
Returned(items, n, result) ==
    [items |-> items, gen |-> n, thrown |-> FALSE, result |-> result]

Thrown(items, n, result) ==
    [items |-> items, gen |-> n, thrown |-> TRUE, result |-> result]

\* try { body } catch (error) { return { success: false, ... } }
\* a plausible slip: the exception is logged and thrown again
CatchAndRethrow(outcome) == outcome

Catch(outcome) == [outcome EXCEPT !.thrown = FALSE]

\* readStorage: a failed read is logged and [] is returned
ReadStorage(stored, f) == IF f.read THEN <<>> ELSE stored

\* ProjectStorageService.validate: the name is required
\* a plausible slip: the validate of the base class, which accepts all
ValidateNothing(item) == TRUE

Validate(item) == item.name # ""

ValidationError(item) == "Project name is required"

\* writeStorage(data), the after-hook if the method has one, the return
\* (bulk: the method is one whose catch returns a bulk result)
Caught(bulk, error) == IF bulk THEN BulkFailed(error) ELSE Failed(error)

WriteStorage(stored, data, n, f, hasHook, result, bulk) ==
    IF f.write THEN Thrown(stored, n, Caught(bulk, "write failed"))
    ELSE IF hasHook /\ f.hook THEN Thrown(data, n, Caught(bulk, "hook failed"))
    ELSE Returned(data, n, result)

\* create
CreateBody(stored, input, n, t, f) ==
    LET data == ReadStorage(stored, f)
        newItem == NewItem(input, n, t)
        n2 == n + Generated(<<input>>)
    IN  IF ~Validate(newItem)
        THEN Returned(stored, n2, Failed(ValidationError(newItem)))
        ELSE WriteStorage(stored, Append(data, newItem), n2, f, TRUE,
                          Ok(<<newItem>>), FALSE)

\* the positions of the items the loop of createBulk rejects
Rejected(items) ==
    SelectSeq([i \in 1..Len(items) |-> i], LAMBDA i : ~Validate(items[i]))

\* errors.push({ index: i, error }) with i counted from 0
BulkErrors(items) ==
    [j \in 1..Len(Rejected(items)) |->
        [index |-> Rejected(items)[j] - 1,
         error |-> ValidationError(items[Rejected(items)[j]])]]

BulkResult(newItems, errors) ==
    [success |-> errors = <<>>, error |-> "none", data |-> newItems,
     errors |-> errors, count |-> 0, value |-> "none"]

\* createBulk
\* a plausible slip: one rejected item and nothing is written
CreateBulkAllOrNothing(stored, inputs, n, t, f) ==
    LET data == ReadStorage(stored, f)
        items == NewItems(inputs, n, t)
        newItems == SelectSeq(items, Validate)
        n2 == n + Generated(inputs)
        result == BulkResult(newItems, BulkErrors(items))
    IN  IF newItems = <<>> \/ newItems # items
        THEN Returned(stored, n2, result)
        ELSE WriteStorage(stored, data \o newItems, n2, f, FALSE, result,
                          TRUE)

CreateBulkBody(stored, inputs, n, t, f) ==
    LET data == ReadStorage(stored, f)
        items == NewItems(inputs, n, t)
        newItems == SelectSeq(items, Validate)
        n2 == n + Generated(inputs)
        result == BulkResult(newItems, BulkErrors(items))
    IN  IF newItems = <<>>
        THEN Returned(stored, n2, result)
        ELSE WriteStorage(stored, data \o newItems, n2, f, FALSE, result,
                          TRUE)

\* { ...item } of put: the payload has no timestamps of its own
NoId == <<"none", 0>>

Spread(input) ==
    [id |-> IF input.hasId THEN input.id ELSE NoId, name |-> input.name,
     createdAt |-> Unset, updatedAt |-> Unset]

\* { ...data[index], ...updates }
Merged(item, updates) ==
    [item EXCEPT !.id = IF updates.hasId THEN updates.id ELSE @,
                 !.name = updates.name]

\* (updatedItem as any)[idField] = id
\* a plausible slip: the ID of the payload is kept
PayloadId(item, id) == item

PreserveId(item, id) == [item EXCEPT !.id = id]

\* put and patch after the item is built: validate, write, afterUpdate
UpdateBody(stored, data, index, updatedItem, n, f) ==
    IF index = 0
    THEN Returned(stored, n, Failed("Item not found"))
    ELSE IF ~Validate(updatedItem)
    THEN Returned(stored, n, Failed(ValidationError(updatedItem)))
    ELSE WriteStorage(stored, [data EXCEPT ![index] = updatedItem], n, f,
                      TRUE, Ok(<<updatedItem>>), FALSE)

\* put
PutBody(stored, id, input, n, t, f) ==
    LET data == ReadStorage(stored, f)
        updatedItem == AddTimestamps(PreserveId(Spread(input), id), FALSE, t)
    IN  UpdateBody(stored, data, FindIndex(data, id), updatedItem, n, f)

\* patch
PatchBody(stored, id, updates, n, t, f) ==
    LET data == ReadStorage(stored, f)
        index == FindIndex(data, id)
        updatedItem ==
            IF index = 0 THEN Spread(updates)
            ELSE AddTimestamps(PreserveId(Merged(data[index], updates), id),
                               FALSE, t)
    IN  UpdateBody(stored, data, index, updatedItem, n, f)

\* data.splice(index, 1)
Spliced(data, index) ==
    SubSeq(data, 1, index - 1) \o SubSeq(data, index + 1, Len(data))

\* delete
DeleteBody(stored, id, n, f) ==
    LET data == ReadStorage(stored, f)
        index == FindIndex(data, id)
    IN  IF index = 0
        THEN Returned(stored, n, Failed("Item not found"))
        ELSE WriteStorage(stored, Spliced(data, index), n, f, TRUE,
                          Done("true"), FALSE)

\* a deleteBulk that fails, and removes nothing, when an ID is not stored
DeleteBulkStrict(stored, ids, n, f) ==
    LET data == ReadStorage(stored, f)
        remainingData == SelectSeq(data, LAMBDA item : item.id \notin ids)
    IN  IF \E id \in ids : FindIndex(data, id) = 0
        THEN Returned(stored, n, BulkFailed("Item not found"))
        ELSE WriteStorage(stored, remainingData, n, f, FALSE, Done("[true]"),
                          TRUE)

\* deleteBulk: the items whose ID is not among ids remain
DeleteBulkBody(stored, ids, n, f) ==
    LET data == ReadStorage(stored, f)
        remainingData == SelectSeq(data, LAMBDA item : item.id \notin ids)
    IN  WriteStorage(stored, remainingData, n, f, FALSE, Done("[true]"),
                     TRUE)

\* Object.entries(where).every(([key, value]) => item[key] === value) for
\* a where / criteria of the form { name: value }; "all" is no where clause
Matches(item, where) == where = "all" \/ item.name = where

\* deleteWhere(criteria)
DeleteWhereBody(stored, criteria, n, f) ==
    LET data == ReadStorage(stored, f)
        remainingData == SelectSeq(data, LAMBDA item : ~Matches(item, criteria))
        deletedCount == Len(data) - Len(remainingData)
    IN  WriteStorage(stored, remainingData, n, f, FALSE,
                     [Ok(<<>>) EXCEPT !.count = deletedCount], FALSE)

\* clear
ClearBody(stored, n, f) ==
    WriteStorage(stored, <<>>, n, f, FALSE, Done("true"), FALSE)

\* the order of JavaScript strings on the names in use
NameRank(name) == IF name = "" THEN 0 ELSE IF name = "a" THEN 1 ELSE 2

\* the comparator of applyFilters returns a positive number for (a, b)
Greater(a, b, order) ==
    IF order = "desc" THEN NameRank(a.name) < NameRank(b.name)
    ELSE NameRank(a.name) > NameRank(b.name)

\* Array.prototype.sort with that comparator (stable): the item goes behind
\* every item that is not greater than it
Inserted(sorted, item, order) ==
    LET p == Cardinality({ i \in 1..Len(sorted) :
                             ~Greater(sorted[i], item, order) })
    IN  SubSeq(sorted, 1, p) \o <<item>> \o SubSeq(sorted, p + 1, Len(sorted))

RECURSIVE SortedBy(_, _)
SortedBy(data, order) ==
    IF data = <<>> THEN <<>>
    ELSE Inserted(SortedBy(SubSeq(data, 1, Len(data) - 1), order),
                  data[Len(data)], order)

\* result.slice(from, to)
Slice(result, from, to) ==
    SubSeq(result, from + 1, IF to < Len(result) THEN to ELSE Len(result))

\* FilterOptions: where { name }, orderBy 'name', order, offset, limit
Options ==
    { o \in [where : {"all", "a"}, orderBy : {"none", "name"},
             order : {"asc", "desc"}, hasOffset : BOOLEAN,
             offset : 0..MaxSlice, hasLimit : BOOLEAN, limit : 0..MaxSlice] :
        /\ o.orderBy = "none" => o.order = "asc"
        /\ ~o.hasOffset => o.offset = 0
        /\ ~o.hasLimit => o.limit = 0 }

\* a plausible slip: the slice is taken before the sort
ApplyFiltersSliceFirst(data, options) ==
    LET filtered == SelectSeq(data, LAMBDA item : Matches(item, options.where))
        skipped == IF options.hasOffset
                   THEN Slice(filtered, options.offset, Len(filtered))
                   ELSE filtered
        limited == IF options.hasLimit THEN Slice(skipped, 0, options.limit)
                   ELSE skipped
    IN  IF options.orderBy = "none" THEN limited
        ELSE SortedBy(limited, options.order)

\* applyFilters: where, then orderBy, then offset, then limit
ApplyFilters(data, options) ==
    LET filtered == SelectSeq(data, LAMBDA item : Matches(item, options.where))
        ordered == IF options.orderBy = "none" THEN filtered
                   ELSE SortedBy(filtered, options.order)
        skipped == IF options.hasOffset
                   THEN Slice(ordered, options.offset, Len(ordered))
                   ELSE ordered
    IN  IF options.hasLimit THEN Slice(skipped, 0, options.limit)
        ELSE skipped

\* getAll(options)
GetAllBody(stored, options, n, f) ==
    Returned(stored, n, Ok(ApplyFilters(ReadStorage(stored, f), options)))

\* CardListStorageService.saveList: clear(), then createBulk(data) if data
\* is not empty; its own catch throws again whatever reaches it
SaveListBody(stored, inputs, n, t, f1, f2) ==
    LET cleared == Catch(ClearBody(stored, n, f1))
        created == Catch(CreateBulkBody(cleared.items, inputs, cleared.gen,
                                        t, f2))
    IN  IF cleared.thrown \/ inputs = <<>>
        THEN [cleared EXCEPT !.result = Ok(<<>>)]
        ELSE [created EXCEPT !.result = Ok(<<>>)]

\* the IDs a client may name in put, patch, delete and deleteBulk
StoreIds == CallerIds \cup {GenerateId(0)}

\* faults that matter to a method that only reads, only reads and writes
ReadFaults == { f \in Faults : ~f.write /\ ~f.hook }

WriteFaults == { f \in Faults : ~f.hook }

\* a call may be made
MayCall == bs.calls < MaxCrudCalls

NoOptions ==
    [where |-> "all", orderBy |-> "none", order |-> "asc", hasOffset |-> FALSE,
     offset |-> 0, hasLimit |-> FALSE, limit |-> 0]

\* the call a client makes: the method, its arguments (those the method
\* does not have are left at a default) and what goes wrong during it
\* (f2: during the createBulk of saveList)
Call(op, id, inputs, ids, options, f, f2) ==
    [op |-> op, id |-> id, inputs |-> inputs, ids |-> ids,
     options |-> options, f |-> f, f2 |-> f2]

\* the service after a call: its outcome is what the client sees
After(call, outcome) ==
    [bs EXCEPT !.calls = @ + 1,
               !.last = call,
               !.items = outcome.items,
               !.gen = outcome.gen,
               !.thrown = outcome.thrown,
               !.result = outcome.result]

CreateCall(input, f) ==
    /\ MayCall
    /\ bs' = After(Call("create", NoId, <<input>>, {}, NoOptions, f, NoFaults),
                Catch(CreateBody(bs.items, input, bs.gen, now, f)))
    /\ UNCHANGED syncVars

CreateBulkCall(inputs, f) ==
    /\ MayCall
    /\ bs' = After(Call("createBulk", NoId, inputs, {}, NoOptions, f, NoFaults),
                Catch(CreateBulkBody(bs.items, inputs, bs.gen, now, f)))
    /\ UNCHANGED syncVars

PutCall(id, input, f) ==
    /\ MayCall
    /\ bs' = After(Call("put", id, <<input>>, {}, NoOptions, f, NoFaults),
                Catch(PutBody(bs.items, id, input, bs.gen, now, f)))
    /\ UNCHANGED syncVars

PatchCall(id, updates, f) ==
    /\ MayCall
    /\ bs' = After(Call("patch", id, <<updates>>, {}, NoOptions, f, NoFaults),
                Catch(PatchBody(bs.items, id, updates, bs.gen, now, f)))
    /\ UNCHANGED syncVars

DeleteCall(id, f) ==
    /\ MayCall
    /\ bs' = After(Call("delete", id, <<>>, {}, NoOptions, f, NoFaults),
                Catch(DeleteBody(bs.items, id, bs.gen, f)))
    /\ UNCHANGED syncVars

DeleteBulkCall(ids, f) ==
    /\ MayCall
    /\ bs' = After(Call("deleteBulk", NoId, <<>>, ids, NoOptions, f, NoFaults),
                Catch(DeleteBulkBody(bs.items, ids, bs.gen, f)))
    /\ UNCHANGED syncVars

DeleteWhereCall(criteria, f) ==
    /\ MayCall
    /\ bs' = After(Call("deleteWhere", NoId, <<>>, {},
                     [NoOptions EXCEPT !.where = criteria], f, NoFaults),
                Catch(DeleteWhereBody(bs.items, criteria, bs.gen, f)))
    /\ UNCHANGED syncVars

ClearCall(f) ==
    /\ MayCall
    /\ bs' = After(Call("clear", NoId, <<>>, {}, NoOptions, f, NoFaults),
                Catch(ClearBody(bs.items, bs.gen, f)))
    /\ UNCHANGED syncVars

GetAllCall(options, f) ==
    /\ MayCall
    /\ bs' = After(Call("getAll", NoId, <<>>, {}, options, f, NoFaults),
                Catch(GetAllBody(bs.items, options, bs.gen, f)))
    /\ UNCHANGED syncVars

SaveListCall(inputs, f1, f2) ==
    /\ MayCall
    /\ bs' = After(Call("saveList", NoId, inputs, {}, NoOptions, f1, f2),
                SaveListBody(bs.items, inputs, bs.gen, now, f1, f2))
    /\ UNCHANGED syncVars

\* the items of a list handed to saveList carry no id; CardListStorageService
\* has the validate of the base class, which accepts every item: the lists
\* are of items that Validate accepts
ListInputs ==
    UNION { [1..n -> { i \in ProjectInputs : ~i.hasId /\ Validate(i) }] :
              n \in 0..MaxBulk }

NextCrud ==
    \/ \E f \in WriteFaults : ClearCall(f)
    \/ \E input \in ProjectInputs, f \in Faults : CreateCall(input, f)
    \/ \E inputs \in BulkProjectInputs, f \in WriteFaults :
          CreateBulkCall(inputs, f)
    \/ \E id \in StoreIds, input \in ProjectInputs, f \in Faults :
          PutCall(id, input, f)
    \/ \E id \in StoreIds, updates \in ProjectInputs, f \in Faults :
          PatchCall(id, updates, f)
    \/ \E id \in StoreIds, f \in Faults : DeleteCall(id, f)
    \/ \E ids \in SUBSET StoreIds, f \in WriteFaults : DeleteBulkCall(ids, f)
    \/ \E criteria \in {"a", "b"}, f \in WriteFaults :
          DeleteWhereCall(criteria, f)
    \/ \E options \in Options, f \in ReadFaults : GetAllCall(options, f)
    \/ \E inputs \in ListInputs, f1 \in WriteFaults, f2 \in WriteFaults :
          SaveListCall(inputs, f1, f2)

\* the client starts with the device online
InitCrud == Init /\ online

SpecCrud == InitCrud /\ [][NextCrud]_vars

(***************************************************************************)
(* StorageService.updateTask called by any client, for a task that is      *)
(* stored or not.                                                          *)
(***************************************************************************)
\* the updates a client hands to updateTask
TaskUpdates == [status : {"pending", "completed"}, needsSync : BOOLEAN]

\* updateTask up to the await of dbHelper.get
UpdateTaskCall(k, updates) ==
    /\ ui.stage = "idle"
    /\ ui' = [stage |-> "got", key |-> k, read |-> IdbGet(db, k),
              status |-> updates.status, needsSync |-> updates.needsSync]
    /\ alert' = "none"
    /\ UNCHANGED <<online, now, db, lastSyncAt, syncData, isSyncing, screen,
                   run, used, bs, syncQueue>>

\* what the promise of updateTask resolves to: nothing, whether the task
\* was found or not (a rejected get or put is logged by its catch)
UpdateTaskReturn(task) == "undefined"

NextTasks ==
    \/ Tick
    \/ \E k \in TaskKeys, updates \in TaskUpdates : UpdateTaskCall(k, updates)
    \/ UpdateTaskPut

SpecTasks == Init /\ [][NextTasks]_vars

(***************************************************************************)
(* UserStorageService: a BaseStorageService whose validate looks the       *)
(* username and the email up in storage.  create calls of two callers may  *)
(* overlap: a create is three steps, one for each read of AsyncStorage it  *)
(* awaits (readStorage, getByField username, getByField email followed by  *)
(* the write).  createBulk, put and patch are taken one call at a time.    *)
(***************************************************************************)
Usernames == {"", "ann", "bob"}

Emails == {"", "ann@x.org", "bob@x.org"}

\* what a caller hands over: the id field is absent, generateId fills it
UserInputs == [username : Usernames, email : Emails]

BulkUserInputs == UNION { [1..n -> UserInputs] : n \in 0..MaxBulk }

\* the updates of a patch: one field
UserUpdates ==
    [field : {"username"}, value : Usernames]
    \cup [field : {"email"}, value : Emails]

NoUser == [id |-> NoId, username |-> "", email |-> "", createdAt |-> Unset,
           updatedAt |-> Unset]

IdleUserCall == [stage |-> "idle", data |-> <<>>, item |-> NoUser]

InitUsers ==
    /\ bs = [items |-> <<>>, call |-> [c \in Callers |-> IdleUserCall],
             gen |-> 0, calls |-> 0, result |-> NoStorageResult]
    /\ syncQueue = InitSyncQueue
    /\ online = TRUE
    /\ now = StartTime
    /\ db = GenerateSampleSyncData(EmptyStore, StartTime)
    /\ lastSyncAt = Unset
    /\ syncData = NoSnapshot
    /\ isSyncing = FALSE
    /\ alert = "none"
    /\ screen = "ProjectList"
    /\ ui = IdleUi
    /\ run = IdleRun
    /\ used = [ops |-> 0, runs |-> 0, net |-> 0]

\* { ...item }, the generated ID, createdAt and updatedAt
NewUser(input, n, t) ==
    [id |-> GenerateId(n), username |-> input.username,
     email |-> input.email, createdAt |-> t, updatedAt |-> t]

\* emailRegex.test(email) on the emails in use
ValidEmail(email) == email # ""

\* getByField(field, value): the first stored item with that value, or null
HasField(stored, field, value) ==
    \E i \in 1..Len(stored) : stored[i][field] = value

GetByField(stored, field, value) ==
    stored[CHOOSE i \in 1..Len(stored) :
             /\ stored[i][field] = value
             /\ \A j \in 1..(i - 1) : stored[j][field] # value]

\* existing && existing.id !== item.id
TakenByOther(stored, field, item) ==
    /\ HasField(stored, field, item[field])
    /\ GetByField(stored, field, item[field]).id # item.id

\* the checks validate makes before it reads storage
UserRequiredError(item) ==
    IF item.username = "" THEN "Username is required"
    ELSE IF ~ValidEmail(item.email) THEN "Valid email is required"
    ELSE "none"

\* validate when nothing is written between its two reads
UserValidateError(stored, item) ==
    IF UserRequiredError(item) # "none" THEN UserRequiredError(item)
    ELSE IF TakenByOther(stored, "username", item)
    THEN "Username already exists"
    ELSE IF TakenByOther(stored, "email", item) THEN "Email already exists"
    ELSE "none"

UserResult(error) == [success |-> error = "none", error |-> error]

MayCallUsers == bs.calls < MaxUserCalls

\* create: readStorage has resolved, the item is built, validate makes its
\* first checks and asks for the user with that username
UserCreate(c, input) ==
    /\ MayCallUsers
    /\ bs.call[c].stage = "idle"
    /\ LET item == NewUser(input, bs.gen, now)
           error == UserRequiredError(item)
       IN  bs' = [bs EXCEPT
                    !.calls = @ + 1,
                    !.gen = @ + 1,
                    !.result = IF error = "none" THEN @ ELSE UserResult(error),
                    !.call[c] = IF error = "none"
                                THEN [stage |-> "username", data |-> bs.items,
                                      item |-> item]
                                ELSE IdleUserCall]
    /\ UNCHANGED syncVars

\* validate: the username has been looked up; the email is asked for
UserCheckUsername(c) ==
    /\ bs.call[c].stage = "username"
    /\ LET taken == TakenByOther(bs.items, "username", bs.call[c].item)
       IN  bs' = [bs EXCEPT
                    !.result = IF taken
                               THEN UserResult("Username already exists")
                               ELSE @,
                    !.call[c] = IF taken THEN IdleUserCall
                                ELSE [@ EXCEPT !.stage = "email"]]
    /\ UNCHANGED syncVars

\* validate: the email has been looked up; if it is free the item is pushed
\* onto the copy create read and the copy is written
UserCheckEmailWrite(c) ==
    /\ bs.call[c].stage = "email"
    /\ LET taken == TakenByOther(bs.items, "email", bs.call[c].item)
       IN  bs' = [bs EXCEPT
                    !.items = IF taken THEN @
                              ELSE Append(bs.call[c].data, bs.call[c].item),
                    !.result = UserResult(IF taken THEN "Email already exists"
                                          ELSE "none"),
                    !.call[c] = IdleUserCall]
    /\ UNCHANGED syncVars

\* createBulk: every item is validated against storage, the accepted ones
\* are pushed and written together
UserCreateBulk(inputs) ==
    /\ MayCallUsers
    /\ LET items == [i \in 1..Len(inputs) |->
                       NewUser(inputs[i], bs.gen + i - 1, now)]
           accepted(item) == UserValidateError(bs.items, item) = "none"
           newItems == SelectSeq(items, accepted)
       IN  bs' = [bs EXCEPT
                    !.calls = @ + 1,
                    !.gen = @ + Len(inputs),
                    !.items = IF newItems = <<>> THEN @ ELSE @ \o newItems,
                    !.result = [success |-> newItems = items,
                                error |-> "none"]]
    /\ UNCHANGED syncVars

\* put and patch after the item is built: validate, write
UserUpdate(index, updatedItem) ==
    LET error == IF index = 0 THEN "Item not found"
                 ELSE UserValidateError(bs.items, updatedItem)
    IN  [bs EXCEPT
           !.calls = @ + 1,
           !.items = IF error = "none" THEN [@ EXCEPT ![index] = updatedItem]
                     ELSE @,
           !.result = UserResult(error)]

\* put: the payload, the ID preserved, updatedAt stamped
UserPut(id, input) ==
    /\ MayCallUsers
    /\ bs' = UserUpdate(FindIndex(bs.items, id),
                        [id |-> id, username |-> input.username,
                         email |-> input.email, createdAt |-> Unset,
                         updatedAt |-> now])
    /\ UNCHANGED syncVars

\* patch: { ...data[index], ...updates }, updatedAt stamped
UserPatch(id, updates) ==
    /\ MayCallUsers
    /\ LET index == FindIndex(bs.items, id)
       IN  bs' = UserUpdate(index,
                            IF index = 0 THEN NoUser
                            ELSE [bs.items[index] EXCEPT
                                    ![updates.field] = updates.value,
                                    !.updatedAt = now])
    /\ UNCHANGED syncVars

\* the IDs a client may name in put and patch
UserIds == {GenerateId(0), GenerateId(1)}

NextUsers ==
    \/ \E c \in Callers, input \in UserInputs : UserCreate(c, input)
    \/ \E c \in Callers : UserCheckUsername(c)
    \/ \E c \in Callers : UserCheckEmailWrite(c)
    \/ \E inputs \in BulkUserInputs : UserCreateBulk(inputs)
    \/ \E id \in UserIds, input \in UserInputs : UserPut(id, input)
    \/ \E id \in UserIds, updates \in UserUpdates : UserPatch(id, updates)

SpecUsers == InitUsers /\ [][NextUsers]_vars

(***************************************************************************)
(* Claims.                                                                 *)
(***************************************************************************)

\* C1: in every reachable state, every stored Task and Evidence record
\* whose needsSync is false has syncStatus synced, records created or
\* updated while the device is online included.
C1_CleanImpliesSynced ==
    \A k \in Stored(db) : ~db[k].needsSync => db[k].syncStatus = "synced"

\* C2: when an orchestration run has completed, no stored record has
\* syncStatus syncing, and every record the run selected is synced or failed.
C2_NoSyncingAfterRun ==
    run.phase = "done" =>
        /\ \A k \in Stored(db) : db[k].syncStatus # "syncing"
        /\ \A k \in Range(run.batch) : db[k].syncStatus \in {"synced", "failed"}

(***************************************************************************)
(* Steps of a run, recognised in a pair of states.                         *)
(***************************************************************************)
\* the run moved on (a local operation leaves its position alone)
RunStepTaken ==
    <<run'.phase, run'.idx, run'.stage>> # <<run.phase, run.idx, run.stage>>

\* the run wrote the record it is working on
RunPutTaken ==
    /\ run.phase \in {"mark", "apply"}
    /\ run.stage = "put"
    /\ run'.stage = "get"

\* the run applied the transport's answer res to the record it read
Applied(res) ==
    /\ RunPutTaken
    /\ run.phase = "apply"
    /\ IsPresent(run.read)
    /\ run.resp[RunKey(run)] = res

IsSyncedAt(r, t) ==
    /\ IsPresent(r)
    /\ ~r.needsSync
    /\ r.syncStatus = "synced"
    /\ r.lastSyncedAt = t
    /\ r.syncError = "none"

IsFailedWith(r, reason) ==
    /\ IsPresent(r)
    /\ r.syncStatus = "failed"
    /\ r.syncError = reason

C5_SuccessOnlyIfAllSucceeded ==
    run.phase = "done" =>
        (run.result.success <=> \A k \in Range(run.batch) : run.resp[k] = "ok")

\* a completed run with one record succeeded, another failed, success false
C5_Witness ==
    /\ run.phase = "done"
    /\ ~run.result.success
    /\ \E k \in Range(run.batch) : run.resp[k] = "ok"
    /\ \E k \in Range(run.batch) : run.resp[k] = "fail"

PartialFailure(r) ==
    /\ r.phase \in {"apply", "stamp", "done"}
    /\ \E k \in Range(r.batch) : r.resp[k] = "fail"

C7_UnselectedUnchanged ==
    [][RunStepTaken =>
        \A k \in Keys : k \notin Range(run'.batch) => db'[k] = db[k]]_vars

\* a completed run that wrote its batch and left the clean sample records
\* as they were generated
C7_Witness ==
    /\ run.phase = "done"
    /\ run.batch # <<>>
    /\ \A k \in Range(run.batch) : db[k].syncStatus \in {"synced", "failed"}
    /\ <<"tasks", 2>> \notin Range(run.batch)
    /\ <<"evidence", 2>> \notin Range(run.batch)
    /\ db[<<"tasks", 2>>] = SampleTasks(StartTime)[<<"tasks", 2>>]
    /\ db[<<"evidence", 2>>] = SampleEvidence(StartTime)[<<"evidence", 2>>]

\* a trigger reached the orchestrator: the manual one, or connectivity
\* coming back
TriggerTaken ==
    \/ screen = "SyncStatus" /\ alert' = "Sync Failed" /\ run.phase # "done"
    \/ ~online /\ online'

\* C8: a run starts only when no run is in flight, and a manual or
\* connectivity trigger that arrives while a run is in flight changes
\* neither the run nor any record.
C8_AtMostOneRun ==
    [][/\ (run'.phase = "select" /\ run.phase # "select") => run.phase = "idle"
       /\ (InFlight(run) /\ TriggerTaken) =>
              /\ <<run'.phase, run'.batch, run'.idx, run'.stage, run'.resp>>
                   = <<run.phase, run.batch, run.idx, run.stage, run.resp>>
              /\ db' = db]_vars

\* a manual trigger was refused while the device is online, a run being in
\* flight
C8_Witness ==
    /\ alert = "Sync Failed"
    /\ online
    /\ screen = "SyncStatus"
    /\ run.phase \in {"select", "mark", "transport", "apply", "stamp"}

\* C9: every step that takes the device from offline to online while no run
\* is in progress schedules an orchestration run.
C9_OnlineSchedulesRun ==
    [][(~online /\ online' /\ ~InFlight(run)) => InFlight(run')]_vars

LocalPatchTaken ==
    /\ ui.stage = "got"
    /\ ui'.stage = "idle"
    /\ IsPresent(ui.read)

\* a record was created under key k
Created(k) == ~IsPresent(db[k]) /\ IsPresent(db'[k])

IsPending(r) == IsPresent(r) /\ r.needsSync /\ r.syncStatus = "pending"

\* C11: a local patch of a record whose syncStatus is synced leaves the
\* record dirty: needsSync is true after the patch.
C11_PatchFlipsDirty ==
    [][(LocalPatchTaken /\ ui.read.syncStatus = "synced")
          => db'[ui.key].needsSync]_vars

\* C12: a record created while the device is offline, and a record updated
\* by a handler that saw the device offline, is stored with needsSync true
\* and syncStatus pending.
C12_OfflineWriteIsPending ==
    [][/\ \A k \in Keys : (~online /\ Created(k)) => IsPending(db'[k])
       /\ (LocalPatchTaken /\ ui.needsSync) => IsPending(db'[ui.key])]_vars

\* the Sync Now handler ran up to its call of manualSync
ManualSyncRequested == HandleManualSync \/ HandleManualSyncRefused

\* C13: a manual sync requested while the device is offline is refused and
\* the handler shows the failure; no run starts, so the transport is not
\* called, and no record changes.
C13_OfflineSyncRefused ==
    [][(~online /\ ManualSyncRequested) =>
          /\ alert' = "Sync Failed"
          /\ run' = run
          /\ db' = db]_vars

\* the failure was shown offline although no run ever started, and the
\* records are the generated ones
C13_Witness ==
    /\ alert = "Sync Failed"
    /\ ~online
    /\ used.runs = 0
    /\ run = IdleRun
    /\ db = GenerateSampleSyncData(EmptyStore, StartTime)

\* C14: a run whose selection is empty changes no record and completes with
\* success true, zero synced counts and no failed record.
C14_EmptyRunSucceeds ==
    [][(RunStepTaken /\ run'.phase \in {"stamp", "done"} /\ run'.batch = <<>>) =>
          /\ db' = db
          /\ run'.phase = "done" =>
                /\ run'.result.success
                /\ run'.result.syncedTasks = 0
                /\ run'.result.syncedEvidence = 0
                /\ run'.result.failedTasks = {}
                /\ run'.result.failedEvidence = {}
                /\ run'.result.errors = {}]_vars

\* a run started online found nothing with needsSync set and completed
\* with success
C14_Witness ==
    /\ run.phase = "done"
    /\ run.batch = <<>>
    /\ run.result.success
    /\ SelectDirty(db) = {}

\* C15: when a run has completed, with or without failed records, the
\* aggregate lastSyncAt is the time of that run.
C15_LastSyncAtStamped ==
    run.phase = "done" => lastSyncAt = now

\* a second run, later than the first and with a failed record, has
\* completed and lastSyncAt is its time
C15_Witness ==
    /\ run.phase = "done"
    /\ used.runs = 2
    /\ now > StartTime
    /\ ~run.result.success
    /\ lastSyncAt = now

\* the sync fields of every record, and the counts of the aggregate snapshot
SyncFields(store) ==
    [k \in Stored(store) |->
        <<store[k].needsSync, store[k].syncStatus, store[k].syncError,
          store[k].lastSyncedAt>>]

Counts(store) ==
    [s \in SyncStatuses |-> CountStatus(store, s)]

C17_CorrelatedById ==
    [][(RunPutTaken /\ run.phase = "apply") =>
          \A k \in Keys :
              db'[k] # db[k] =>
                  /\ k \in Range(run.batch)
                  /\ db'[k].syncStatus =
                        IF run.resp[k] = "ok" THEN "synced" ELSE "failed"]_vars

\* a completed run whose response came in another order than the batch,
\* with both outcomes, each record holding its own
C17_Witness ==
    /\ run.phase = "done"
    /\ run.order # run.batch
    /\ run.resp[run.batch[1]] # run.resp[run.order[1]]
    /\ \A k \in Range(run.batch) :
          db[k].syncStatus = IF run.resp[k] = "ok" THEN "synced" ELSE "failed"

C19_UpdatedAtRefreshed ==
    [][\A k \in Keys :
          (IsPresent(db[k]) /\ IsPresent(db'[k]) /\ db'[k] # db[k])
              => db'[k].updatedAt = now]_vars

\* C20: no two items of a BaseStorageService collection have the same ID.
C20_UniqueIds ==
    \A i, j \in 1..Len(bs.items) :
        i # j => bs.items[i].id # bs.items[j].id

(***************************************************************************)
(* Calls of the BaseStorageService client, recognised in a pair of states. *)
(***************************************************************************)
\* the client made the call op in this step
CrudCall(op) == bs'.calls = bs.calls + 1 /\ bs'.last.op = op

\* AsyncStorage worked during the call: no read and no write failed
StorageWorked(call) == ~call.f.read /\ ~call.f.write

Ids(items) == [i \in 1..Len(items) |-> items[i].id]

ItemNames(items) == [i \in 1..Len(items) |-> items[i].name]

\* C21: a put or patch call leaves every item of the collection with the ID
\* it had; when it succeeds, the item it wrote is the one whose ID is the id
\* of the call, whatever ID the payload carries.
C21_IdImmutable ==
    [][(CrudCall("put") \/ CrudCall("patch")) =>
          /\ Ids(bs'.items) = Ids(bs.items)
          /\ bs'.result.success =>
                /\ bs'.result.data[1].id = bs'.last.id
                /\ bs'.items[FindIndex(bs.items, bs'.last.id)]
                      = bs'.result.data[1]]_vars

\* a put or patch whose payload carries another ID than the id of the call
\* has succeeded on a collection of two items with different IDs
C21_Witness ==
    /\ bs.last.op \in {"put", "patch"}
    /\ bs.result.success
    /\ bs.last.inputs[1].hasId
    /\ bs.last.inputs[1].id # bs.last.id
    /\ Len(bs.items) = 2
    /\ bs.items[1].id # bs.items[2].id
    /\ bs.items[2].id = bs.last.id

\* C22: when AsyncStorage works, createBulk appends the items that pass
\* validation, in their order, to the collection it found, and reports one
\* error for each rejected item, with the index of that item in the input.
C22_CreateBulkPartial ==
    [][(CrudCall("createBulk") /\ StorageWorked(bs'.last)) =>
          LET inputs == bs'.last.inputs
              valid == SelectSeq(inputs, LAMBDA i : i.name # "")
              invalid == { i \in 1..Len(inputs) : inputs[i].name = "" }
              errors == bs'.result.errors
          IN  /\ Len(bs'.items) = Len(bs.items) + Len(valid)
              /\ SubSeq(bs'.items, 1, Len(bs.items)) = bs.items
              /\ ItemNames(SubSeq(bs'.items, Len(bs.items) + 1, Len(bs'.items)))
                    = ItemNames(valid)
              /\ bs'.result.data
                    = SubSeq(bs'.items, Len(bs.items) + 1, Len(bs'.items))
              /\ Len(errors) = Cardinality(invalid)
              /\ { errors[j].index + 1 : j \in 1..Len(errors) } = invalid
              /\ bs'.result.success <=> invalid = {}]_vars

\* a createBulk of a rejected item followed by a valid one has added the
\* valid one to a collection that held an item, and reported index 0
C22_Witness ==
    /\ bs.last.op = "createBulk"
    /\ StorageWorked(bs.last)
    /\ ItemNames(bs.last.inputs) = <<"", "b">>
    /\ Len(bs.items) = 2
    /\ bs.items[2].name = "b"
    /\ bs.result.data = <<bs.items[2]>>
    /\ Len(bs.result.errors) = 1
    /\ bs.result.errors[1].index = 0

\* C23: create of an item that validate rejects fails with the validation
\* error and leaves the collection as it was; create of any other item,
\* when AsyncStorage works, appends the item to the collection.
C23_CreateValidates ==
    [][CrudCall("create") =>
          LET input == bs'.last.inputs[1]
          IN  IF input.name = ""
              THEN /\ bs'.items = bs.items
                   /\ ~bs'.result.success
                   /\ bs'.result.error = "Project name is required"
              ELSE StorageWorked(bs'.last) =>
                   /\ Len(bs'.items) = Len(bs.items) + 1
                   /\ SubSeq(bs'.items, 1, Len(bs.items)) = bs.items
                   /\ bs'.items[Len(bs'.items)].name = input.name]_vars

\* validate has rejected the item of a create on a collection that holds
\* an item
C23_Witness ==
    /\ bs.last.op = "create"
    /\ bs.last.inputs[1].name = ""
    /\ ~bs.result.success
    /\ bs.result.error = "Project name is required"
    /\ Len(bs.items) = 1

C25_DeleteNotFoundBulkSkips ==
    [][/\ (CrudCall("delete") /\ FindIndex(bs.items, bs'.last.id) = 0) =>
              /\ bs'.items = bs.items
              /\ ~bs'.result.success
              /\ bs'.result.error = "Item not found"
       /\ (CrudCall("deleteBulk") /\ StorageWorked(bs'.last)) =>
              /\ bs'.result.success
              /\ bs'.result.errors = <<>>
              /\ bs'.items =
                    SelectSeq(bs.items,
                              LAMBDA item : item.id \notin bs'.last.ids)
       /\ (CrudCall("deleteWhere") /\ StorageWorked(bs'.last)) =>
              /\ bs'.result.success
              /\ bs'.items =
                    SelectSeq(bs.items,
                              LAMBDA item :
                                  item.name # bs'.last.options.where)
              /\ bs'.result.count = Len(bs.items) - Len(bs'.items)]_vars

\* a deleteBulk has succeeded with the ID of a record it removed and an ID
\* that no record had, and a record it was not asked to remove is left
C25_Witness ==
    /\ bs.last.op = "deleteBulk"
    /\ bs.last.ids = {GenerateId(0), <<"caller", 1>>}
    /\ bs.gen = 2
    /\ bs.result.success
    /\ Ids(bs.items) = <<GenerateId(1)>>

\* the positions of the stored items that a where clause matches
Matched(items, o) ==
    { i \in 1..Len(items) : o.where = "all" \/ items[i].name = o.where }

\* item i comes before item j in the order asked for: by name, ascending
\* or descending, equal names and no orderBy in storage order
ComesBefore(items, o, i, j) ==
    LET ri == NameRank(items[i].name)
        rj == NameRank(items[j].name)
    IN  \/ o.orderBy = "name" /\ o.order = "asc" /\ ri < rj
        \/ o.orderBy = "name" /\ o.order = "desc" /\ ri > rj
        \/ (o.orderBy = "none" \/ ri = rj) /\ i < j

\* how many matched items come before item i
RankOf(items, o, i) ==
    Cardinality({ j \in Matched(items, o) : ComesBefore(items, o, j, i) })

\* the window [offset, offset + limit) of the matched items in order
Window(items, o) ==
    LET lo == IF o.hasOffset THEN o.offset ELSE 0
        hi == IF o.hasLimit THEN lo + o.limit ELSE Len(items)
        w == { i \in Matched(items, o) :
                 lo <= RankOf(items, o, i) /\ RankOf(items, o, i) < hi }
    IN  [n \in 1..Cardinality(w) |->
           items[CHOOSE i \in w : RankOf(items, o, i) = lo + n - 1]]

\* C26: getAll({ where, orderBy, order, offset, limit }) returns the window
\* [offset, offset + limit) of the matching records in the order asked
\* for: the slice is taken after the filter and the sort, so a limit of k
\* gives the first k of the sorted matches (when the read works).
C26_SliceAfterFilterAndSort ==
    (bs.last.op = "getAll" /\ ~bs.last.f.read) =>
        /\ bs.result.success
        /\ bs.result.data = Window(bs.items, bs.last.options)

\* two records stored as a, b; getAll ordered by name descending with a
\* limit of 1 has returned b
C26_Witness ==
    /\ bs.last.op = "getAll"
    /\ ~bs.last.f.read
    /\ bs.last.options.orderBy = "name"
    /\ bs.last.options.order = "desc"
    /\ bs.last.options.hasLimit
    /\ bs.last.options.limit = 1
    /\ ItemNames(bs.items) = <<"a", "b">>
    /\ ItemNames(bs.result.data) = <<"b">>

\* what a create, put, patch or delete call on the service b ends with
\* when f is what goes wrong during it
OutcomeOf(b, call, f) ==
    CASE call.op = "create" ->
           Catch(CreateBody(b.items, call.inputs[1], b.gen, now, f))
      [] call.op = "put" ->
           Catch(PutBody(b.items, call.id, call.inputs[1], b.gen, now, f))
      [] call.op = "patch" ->
           Catch(PatchBody(b.items, call.id, call.inputs[1], b.gen, now, f))
      [] call.op = "delete" ->
           Catch(DeleteBody(b.items, call.id, b.gen, f))

HookedOps == {"create", "put", "patch", "delete"}

AlwaysWrites == {"clear", "deleteBulk", "deleteWhere"}

\* C28: no call of a public store operation, saveList included, ends with
\* an exception reaching the caller, whether a read fails, a write fails or
\* a hook throws; a failed write and a thrown hook come back as a result
\* with success false that carries the error.
C28_ErrorsAreResults ==
    [][bs'.calls = bs.calls + 1 =>
          /\ ~bs'.thrown
          /\ (bs'.last.op \in AlwaysWrites /\ bs'.last.f.write) =>
                /\ ~bs'.result.success
                /\ bs'.items = bs.items
                /\ \/ bs'.result.error = "write failed"
                   \/ bs'.result.errors =
                        <<[index |-> -1, error |-> "write failed"]>>
          /\ (bs'.last.op \in HookedOps /\ bs'.last.f.hook
                 /\ bs'.items # bs.items) =>
                /\ ~bs'.result.success
                /\ bs'.result.error = "hook failed"]_vars

\* the write of a clear on a collection that holds an item has failed and
\* the caller holds a result that says so
C28_Witness ==
    /\ bs.last.op = "clear"
    /\ bs.last.f.write
    /\ ~bs.thrown
    /\ ~bs.result.success
    /\ bs.result.error = "write failed"
    /\ bs.items # <<>>

\* the status of the stored record k changes to one of statuses
Becomes(k, statuses) ==
    /\ IsPresent(db[k])
    /\ IsPresent(db'[k])
    /\ db'[k].syncStatus \in statuses
    /\ db'[k].syncStatus # db[k].syncStatus

\* C29: the syncStatus of a stored record changes to syncing only by the
\* write with which a run marks the records of its batch, before it calls
\* the transport; it changes to synced or failed only from syncing, by the
\* write with which a run applies the transport's answer for that record
\* (synced for ok, failed otherwise).
C29_StatusTransitions ==
    [][\A k \in Keys :
          /\ Becomes(k, {"syncing"}) =>
                /\ RunPutTaken
                /\ run.phase = "mark"
                /\ k = RunKey(run)
                /\ k \in Range(run.batch)
          /\ Becomes(k, {"synced", "failed"}) =>
                /\ RunPutTaken
                /\ run.phase = "apply"
                /\ k = RunKey(run)
                /\ db[k].syncStatus = "syncing"
                /\ db'[k].syncStatus =
                      IF run.resp[k] = "ok" THEN "synced" ELSE "failed"]_vars

\* C30: no step of a run removes a Task or an Evidence record: the keys
\* stored in each collection are the same after the step as before it, and
\* so after the run as before it (records added by the user meanwhile
\* apart).
C30_RunDeletesNothing ==
    [][RunStepTaken => Stored(db') = Stored(db)]_vars

\* a run has completed with a batch of tasks and evidence, one of them
\* synced and one failed, and every record of the batch is still stored
C30_Witness ==
    /\ run.phase = "done"
    /\ \E k \in Range(run.batch) : k[1] = "tasks"
    /\ \E k \in Range(run.batch) : k[1] = "evidence"
    /\ Range(run.batch) \subseteq Stored(db)
    /\ \E k \in Range(run.batch) : db[k].syncStatus = "synced"
    /\ \E k \in Range(run.batch) : db[k].syncStatus = "failed"

\* the run is about to write the task it read, and the user has changed
\* the status of that task since the run read it: a local mutation of a
\* record the run selected, made while the run is in flight
MutatedInFlight ==
    /\ RunPutTaken
    /\ RunKey(run) \in TaskKeys
    /\ IsPresent(run.read)
    /\ IsPresent(db[RunKey(run)])
    /\ db[RunKey(run)].status # run.read.status

\* C31: when the user has changed a task that a run in flight selected,
\* between the run's read of the task and its write, the write of the run
\* keeps the status the user wrote and leaves the task dirty, so that a
\* later run pushes the change.
C31_LocalMutationSurvives ==
    [][MutatedInFlight =>
          /\ db'[RunKey(run)].status = db[RunKey(run)].status
          /\ db'[RunKey(run)].needsSync]_vars

\* caller c completes its call with this step (its write, if it has one)
Completes(c) == bs.call[c].op # "idle" /\ bs'.call[c].op = "idle"

StoredItems(items) == { items[i] : i \in 1..Len(items) }

\* C32: the write that completes a mutating call keeps what the calls
\* that overlapped it have written: every item in the collection before
\* the write is in it afterwards (for a patch, every item but the one it
\* patches), so that two overlapping create calls that both succeed leave
\* both items in the collection.
C32_OverlappingCallsBothApply ==
    [][\A c \in Callers :
          (Completes(c) /\ bs'.result.success) =>
              \A item \in StoredItems(bs.items) :
                  \/ item \in StoredItems(bs'.items)
                  \/ bs.call[c].op = "patch" /\ item.id = bs.call[c].id]_vars

\* C33: when a run completes with success (the transport accepted every
\* record submitted), the aggregate snapshot of the stores counts no
\* pending and no failed record, whatever needsSync the records had.
C33_NoDirtyAfterSuccess ==
    [][(run.phase = "stamp" /\ run'.phase = "done" /\ run'.result.success) =>
          LET d == GetSyncStatusData(db', online', lastSyncAt')
          IN  d.pendingItems = 0 /\ d.failedItems = 0]_vars

\* the mutating methods that compute what they write from what they read
ReadDependent == {"create", "createBulk", "deleteBulk", "deleteWhere"}

\* C34: a create, createBulk, deleteBulk or deleteWhere call during which
\* the read of the collection fails loses no stored record: every item in
\* the collection before the call is in it afterwards.
C34_ReadFailureLosesNothing ==
    [][(/\ bs'.calls = bs.calls + 1
        /\ bs'.last.op \in ReadDependent
        /\ bs'.last.f.read) =>
          StoredItems(bs.items) \subseteq StoredItems(bs'.items)]_vars

CreatedAts(items) == [i \in 1..Len(items) |-> items[i].createdAt]

\* C35: a put or patch call leaves the createdAt of every stored record,
\* the one it writes included, at the value stamped when the record was
\* created.
C35_CreatedAtImmutable ==
    [][(CrudCall("put") \/ CrudCall("patch")) =>
          CreatedAts(bs'.items) = CreatedAts(bs.items)]_vars

\* C36: the users UserStorageService has persisted have pairwise different
\* usernames and pairwise different emails, whatever create, createBulk,
\* put and patch calls were made.
C36_UniqueUsernameAndEmail ==
    \A i, j \in 1..Len(bs.items) :
        i # j => /\ bs.items[i].username # bs.items[j].username
                 /\ bs.items[i].email # bs.items[j].email

\* the names of the items a list of inputs is made of
InputNames(inputs) == [i \in 1..Len(inputs) |-> inputs[i].name]

\* C37: after a saveList call, whatever went wrong during it, the stored
\* list is the list handed over or the list stored before the call.
C37_SaveListIsAUnit ==
    [][CrudCall("saveList") =>
          \/ ItemNames(bs'.items) = InputNames(bs'.last.inputs)
          \/ bs'.items = bs.items]_vars

\* C38: once the sync-queue record holds a lastSyncAt, no step (of
\* clearSyncQueue, addToSyncQueue, a later run or anything else) removes it
\* or replaces it by an earlier time: getLastSyncTimestamp returns a
\* timestamp, not null, that never decreases.
C38_LastSyncAtKept ==
    [][lastSyncAt # Unset =>
          /\ lastSyncAt' # Unset
          /\ lastSyncAt' >= lastSyncAt]_vars

====
